---- MODULE Spec2Model ----
(***************************************************************************)
(* Model of app/services/transfer.py: transfer_file composes a remote      *)
(* filename prefix and calls transfer_scp, which validates the             *)
(* configuration, opens an SSH session, resolves the remote path, uploads  *)
(* one file over SCP and closes the session.                               *)
(*                                                                         *)
(* Strings are sequences of tokens.  "/", "~", "-" and the whitespace      *)
(* tokens are single characters; every other token is an opaque chunk of   *)
(* text that contains none of them.  Python's None and an absent           *)
(* dictionary key are two reserved one-token values.                       *)
(***************************************************************************)
EXTENDS Integers, Sequences, FiniteSets, TLC

VARIABLES
    pc,               \* position in transfer_file / transfer_scp
    entry,            \* which function the caller invoked
    config,           \* the "transfer" configuration mapping
    full_path,        \* argument full_path
    blueprint_id,     \* argument blueprint_id of transfer_file
    blueprint_name,   \* argument blueprint_name of transfer_file
    timestamp,        \* datetime.now().strftime(...) of transfer_file
    local_file_path,  \* argument local_file_path of transfer_scp
    custom_filename,  \* argument custom_filename of transfer_scp
    full_aos_path,    \* local of transfer_scp
    remote_filename,  \* local of transfer_scp
    connect_kwargs,   \* keyword arguments handed to ssh.connect
    remote_dir,       \* local of transfer_scp
    remote_path,      \* local of transfer_scp
    net,              \* what the SSH/SCP transport observed (call counts, arguments)
    log,              \* last message handed to logger.error
    result            \* return value observed by the caller

vars == <<pc, entry, config, full_path, blueprint_id, blueprint_name, timestamp,
          local_file_path, custom_filename, full_aos_path, remote_filename,
          connect_kwargs, remote_dir, remote_path, net, log, result>>

----------------------------------------------------------------------------
(* Values *)

None    == <<"<None>">>      \* Python None
Missing == <<"<missing>">>   \* key absent from a dict
Unset   == <<"<unset>">>     \* a local not assigned yet

S(tok) == <<tok>>

\* bool(x) for x a str or None
Truthy(x) == x # None /\ x # Missing /\ x # <<>>

\* dict.get(key, default)
Get(d, key, default) == IF d[key] = Missing THEN default ELSE d[key]

Max(A) == CHOOSE x \in A : \A y \in A : y <= x
Min(A) == CHOOSE x \in A : \A y \in A : x <= y

\* os.path.basename
basename(p) ==
    LET idx == {i \in 1..Len(p) : p[i] = "/"}
    IN  IF idx = {} THEN p ELSE SubSeq(p, Max(idx) + 1, Len(p))

Whitespace == {"\n", " "}

\* str.strip()
strip(s) ==
    LET keep == {i \in 1..Len(s) : s[i] \notin Whitespace}
    IN  IF keep = {} THEN <<>> ELSE SubSeq(s, Min(keep), Max(keep))

\* str.endswith('/')
endswith_slash(s) == Len(s) > 0 /\ s[Len(s)] = "/"

\* str.startswith('~/')
startswith_home(s) == Len(s) >= 2 /\ s[1] = "~" /\ s[2] = "/"

\* sep.join(parts)
RECURSIVE join(_, _)
join(sep, parts) ==
    IF parts = <<>> THEN <<>>
    ELSE IF Len(parts) = 1 THEN parts[1]
    ELSE parts[1] \o sep \o join(sep, Tail(parts))

Suffix == <<"-", "aos.data.tar.gz">>

----------------------------------------------------------------------------
(* transfer_file: the filename composer and the method dispatch *)

\* variant: the blueprint id is preferred over the blueprint name
compose_IdFirst(bid, bname, ts) ==
    LET parts == IF Truthy(bid) /\ bid # S("default") THEN <<bid>>
                 ELSE IF Truthy(bname) /\ bname # S("Default Blueprint") THEN <<bname>>
                 ELSE <<>>
    IN  join(S("-"), Append(parts, ts))

\* filename_parts, joined with "-"
compose(bid, bname, ts) ==
    LET parts == IF Truthy(bname) /\ bname # S("Default Blueprint") THEN <<bname>>
                 ELSE IF Truthy(bid) /\ bid # S("default") THEN <<bid>>
                 ELSE <<>>
    IN  join(S("-"), Append(parts, ts))

\* method = "scp": the method is fixed in the code, not read from the configuration
method == "scp"

----------------------------------------------------------------------------
(* transfer_scp: pure parts *)

\* variant: only the host is required
ConfigValid_HostOnly(host, username) == Truthy(host)

\* not all([host, username]) is the negation of this
ConfigValid(host, username) == Truthy(host) /\ Truthy(username)

\* variant: the path handed in is uploaded as it is
FullAosPath_Given(lfp) == lfp

\* f"/var/lib/aos/snapshot/{local_file_path}/aos.data.tar.gz"
FullAosPath(lfp) ==
    <<"/", "var", "/", "lib", "/", "aos", "/", "snapshot", "/">> \o lfp
        \o <<"/", "aos.data.tar.gz">>

\* variant: the custom prefix is ignored
RemoteFilename_NoCustom(custom, fpath) == basename(fpath) \o Suffix

\* remote_filename
RemoteFilename(custom, fpath) ==
    IF Truthy(custom) THEN custom \o Suffix ELSE basename(fpath) \o Suffix

\* variant: the password is passed whenever one is configured, key or not
ConnectKwargs_Both(host, port, username, password, ssh_key_path) ==
    [hostname |-> host, port |-> port, username |-> username,
     key_filename |-> IF Truthy(ssh_key_path) THEN ssh_key_path ELSE Missing,
     password |-> IF Truthy(password) THEN password ELSE Missing]

\* connect_kwargs
ConnectKwargs(host, port, username, password, ssh_key_path) ==
    LET base == [hostname |-> host, port |-> port, username |-> username,
                 key_filename |-> Missing, password |-> Missing]
    IN  IF Truthy(ssh_key_path) THEN [base EXCEPT !.key_filename = ssh_key_path]
        ELSE IF Truthy(password) THEN [base EXCEPT !.password = password]
        ELSE base

\* variant: no separator is added
EnsureSlash_Never(d) == d

\* if not remote_dir.endswith('/'): remote_dir = f"{remote_dir}/"
EnsureSlash(d) == IF endswith_slash(d) THEN d ELSE d \o S("/")

\* whether the home directory has to be queried for the (slash-terminated) directory
NeedsHome(d) == startswith_home(d)

\* remote_path, for the slash-terminated directory d
RemotePath(d, home_dir, rfn) ==
    IF NeedsHome(d) THEN home_dir \o S("/") \o SubSeq(d, 3, Len(d)) \o rfn
    ELSE d \o rfn

Exceptions == {"AuthenticationException", "SSHException", "Exception"}

\* the except clause that catches e, by the message it logs
ExceptLog(e) ==
    IF e = "AuthenticationException" THEN "Authentication failed"
    ELSE IF e = "SSHException" THEN "SSH error"
    ELSE "Error during SCP transfer"

\* variant: the generic except clause reports success
ExceptReturn_Generic(e) == IF e = "Exception" THEN "True" ELSE "False"

\* what the except clause returns
ExceptReturn(e) == "False"

\* variant: an authentication failure is followed by another connection attempt
ExceptNext_Retry(e) == IF e = "AuthenticationException" THEN "connect" ELSE "done"

\* where control goes after the except clause: back to the caller
ExceptNext(e) == "done"

----------------------------------------------------------------------------
(* Inputs *)

MaxDirLen == 3

BoundedSeq(A, n) == UNION {[1..k -> A] : k \in 0..n}

Hosts     == {Missing, <<>>, S("backup.example")}
Users     == {Missing, <<>>, S("svc")}
Ports     == {Missing, S("2222")}
Passwords == {Missing, <<>>, S("secret")}
Keys      == {Missing, <<>>, S("id_rsa")}
Methods   == {Missing, S("scp"), S("sftp"), S("ftp")}

HomeBackups == <<"~", "/", "backups", "/">>        \* "~/backups/"
SrvBackups  == <<"/", "srv", "/", "backups">>      \* "/srv/backups"
DirChars    == {"/", "~", "backups"}
SomeDirs    == {Missing, None, HomeBackups, SrvBackups}
AllDirs     == SomeDirs \cup BoundedSeq(DirChars, MaxDirLen)

Timestamps  == {S("20250101_000000"), S("20251231_235959")}
\* what "echo $HOME" prints
HomeOutputs == {<<"/", "home", "/", "svc", "\n">>, <<"/", "\n">>, <<"\n">>}

Paths == {<<"/", "tmp", "/", "snap1">>, S("snap2"), <<"snap3", "/">>}

BlueprintIds   == {None, <<>>, S("default"), S("b1"), S("Default Blueprint")}
BlueprintNames == {None, <<>>, S("Default Blueprint"), S("My Blueprint"), S("default")}

FileCall(p, bid, bname) ==
    [entry |-> "transfer_file", full_path |-> p, blueprint_id |-> bid,
     blueprint_name |-> bname, local_file_path |-> Unset, custom_filename |-> Unset]

ScpCall(p, lfp, custom) ==
    [entry |-> "transfer_scp", full_path |-> p, blueprint_id |-> None,
     blueprint_name |-> None, local_file_path |-> lfp, custom_filename |-> custom]

SomeCalls ==
    {FileCall(<<"/", "tmp", "/", "snap1">>, None, None),
     FileCall(<<"/", "tmp", "/", "snap1">>, S("b1"), S("My Blueprint")),
     ScpCall(<<"/", "tmp", "/", "snap1">>, S("snap1"), None),
     ScpCall(<<"/", "tmp", "/", "snap1">>, S("snap1"), S("nightly"))}

AllCalls ==
    {FileCall(p, bid, bname) : p \in Paths, bid \in BlueprintIds, bname \in BlueprintNames}
    \cup UNION {{ScpCall(p, lfp, custom) : lfp \in {basename(p), S("other")},
                                           custom \in {None, <<>>, S("nightly")}}
                : p \in Paths}

\* connect_kwargs before ssh.connect is reached
NoKwargs == [hostname |-> Unset, port |-> Unset, username |-> Unset,
             key_filename |-> Unset, password |-> Unset]

NoNet == [ssh_clients |-> 0, connects |-> 0, connected |-> FALSE, scp_clients |-> 0,
          exec_commands |-> 0, home_dir |-> Unset, puts |-> 0, put_local |-> Unset,
          put_remote |-> Unset, put_done |-> FALSE, scp_closes |-> 0, ssh_closes |-> 0]

InitWith(hosts, users, ports, passwords, keys, dirs, methods, calls) ==
    /\ config \in [host : hosts, port : ports, username : users, password : passwords,
                   ssh_key_path : keys, remote_directory : dirs, method : methods]
    /\ \E c \in calls :
          /\ entry = c.entry
          /\ full_path = c.full_path
          /\ blueprint_id = c.blueprint_id
          /\ blueprint_name = c.blueprint_name
          /\ local_file_path = c.local_file_path
          /\ custom_filename = c.custom_filename
    /\ pc = entry
    /\ timestamp = Unset
    /\ full_aos_path = Unset
    /\ remote_filename = Unset
    /\ connect_kwargs = NoKwargs
    /\ remote_dir = Unset
    /\ remote_path = Unset
    /\ net = NoNet
    /\ log = "none"
    /\ result = "pending"

\* every configuration, a few directories and calls
Init == InitWith(Hosts, Users, Ports, Passwords, Keys, SomeDirs, Methods, SomeCalls)

\* every remote directory and every home directory
InitPath ==
    InitWith({Missing, S("backup.example")}, {S("svc")}, {Missing}, {Missing},
             {S("id_rsa")}, AllDirs, {S("scp")}, SomeCalls)

\* every call
InitName ==
    InitWith({Missing, S("backup.example")}, {S("svc")}, {Missing}, {Missing},
             {S("id_rsa")}, SomeDirs, {S("scp")}, AllCalls)

----------------------------------------------------------------------------
(* Operations *)

inputs == <<entry, config, full_path, blueprint_id, blueprint_name>>

\* an except clause of transfer_scp catches e
Except(e) ==
    /\ log' = ExceptLog(e)
    /\ result' = ExceptReturn(e)
    /\ pc' = ExceptNext(e)

\* transfer_file, up to the call of transfer_scp
TransferFile ==
    /\ pc = "transfer_file"
    /\ \E ts \in Timestamps :
          /\ timestamp' = ts
          /\ custom_filename' = compose(blueprint_id, blueprint_name, ts)
    /\ local_file_path' = basename(full_path)
    /\ IF method = "scp"
       THEN pc' = "transfer_scp" /\ UNCHANGED <<log, result>>
       ELSE pc' = "done" /\ log' = "Unsupported transfer method" /\ result' = "False"
    /\ UNCHANGED <<inputs, full_aos_path, remote_filename, connect_kwargs, remote_dir,
                   remote_path, net>>

\* transfer_scp: host or username is missing
ConfigRejected ==
    /\ pc = "transfer_scp"
    /\ ~ConfigValid(Get(config, "host", None), Get(config, "username", None))
    /\ log' = "Missing required SCP configuration"
    /\ result' = "False"
    /\ pc' = "done"
    /\ UNCHANGED <<inputs, timestamp, local_file_path, custom_filename, full_aos_path,
                   remote_filename, connect_kwargs, remote_dir, remote_path, net>>

\* transfer_scp: the names are computed, up to the try block
Prepare ==
    /\ pc = "transfer_scp"
    /\ ConfigValid(Get(config, "host", None), Get(config, "username", None))
    /\ full_aos_path' = FullAosPath(local_file_path)
    /\ remote_filename' = RemoteFilename(custom_filename, full_path)
    /\ remote_dir' = Get(config, "remote_directory", <<"~", "/">>)
    /\ pc' = "connect"
    /\ UNCHANGED <<inputs, timestamp, local_file_path, custom_filename, connect_kwargs,
                   remote_path, net, log, result>>

\* SSHClient(), connect_kwargs and ssh.connect(**connect_kwargs)
Connecting ==
    /\ pc = "connect"
    /\ connect_kwargs' = ConnectKwargs(Get(config, "host", None),
                                       Get(config, "port", S("22")),
                                       Get(config, "username", None),
                                       Get(config, "password", None),
                                       Get(config, "ssh_key_path", None))
    /\ UNCHANGED <<inputs, timestamp, local_file_path, custom_filename, full_aos_path,
                   remote_filename, remote_dir, remote_path>>

ConnectOk ==
    /\ Connecting
    /\ net' = [net EXCEPT !.ssh_clients = @ + 1, !.connects = @ + 1, !.connected = TRUE]
    /\ pc' = "resolve"
    /\ UNCHANGED <<log, result>>

ConnectRaise ==
    /\ Connecting
    /\ net' = [net EXCEPT !.ssh_clients = @ + 1, !.connects = @ + 1]
    /\ \E e \in Exceptions : Except(e)

\* SCPClient(ssh.get_transport()) and the resolution of the remote path
Resolving ==
    /\ pc = "resolve"
    /\ UNCHANGED <<inputs, timestamp, local_file_path, custom_filename, full_aos_path,
                   remote_filename, connect_kwargs>>

\* remote_directory is None: None has no endswith
ResolveTypeError ==
    /\ Resolving
    /\ remote_dir = None
    /\ net' = [net EXCEPT !.scp_clients = @ + 1]
    /\ Except("Exception")
    /\ UNCHANGED <<remote_dir, remote_path>>

ResolvePlain ==
    /\ Resolving
    /\ remote_dir # None
    /\ ~NeedsHome(EnsureSlash(remote_dir))
    /\ remote_dir' = EnsureSlash(remote_dir)
    /\ remote_path' = RemotePath(remote_dir', Unset, remote_filename)
    /\ net' = [net EXCEPT !.scp_clients = @ + 1]
    /\ pc' = "put"
    /\ UNCHANGED <<log, result>>

ResolveHome ==
    /\ Resolving
    /\ remote_dir # None
    /\ NeedsHome(EnsureSlash(remote_dir))
    /\ remote_dir' = EnsureSlash(remote_dir)
    /\ \E out \in HomeOutputs :
          /\ net' = [net EXCEPT !.scp_clients = @ + 1, !.exec_commands = @ + 1,
                                !.home_dir = strip(out)]
          /\ remote_path' = RemotePath(remote_dir', strip(out), remote_filename)
    /\ pc' = "put"
    /\ UNCHANGED <<log, result>>

\* ssh.exec_command or stdout.read raises
ResolveHomeRaise ==
    /\ Resolving
    /\ remote_dir # None
    /\ NeedsHome(EnsureSlash(remote_dir))
    /\ remote_dir' = EnsureSlash(remote_dir)
    /\ net' = [net EXCEPT !.scp_clients = @ + 1, !.exec_commands = @ + 1]
    /\ \E e \in {"SSHException", "Exception"} : Except(e)
    /\ UNCHANGED remote_path

\* scp.put(full_aos_path, remote_path)
Putting ==
    /\ pc = "put"
    /\ UNCHANGED <<inputs, timestamp, local_file_path, custom_filename, full_aos_path,
                   remote_filename, connect_kwargs, remote_dir, remote_path>>

PutOk ==
    /\ Putting
    /\ net' = [net EXCEPT !.puts = @ + 1, !.put_local = full_aos_path,
                          !.put_remote = remote_path, !.put_done = TRUE]
    /\ pc' = "close"
    /\ UNCHANGED <<log, result>>

PutRaise ==
    /\ Putting
    /\ net' = [net EXCEPT !.puts = @ + 1, !.put_local = full_aos_path,
                          !.put_remote = remote_path]
    /\ \E e \in {"SSHException", "Exception"} : Except(e)

\* scp.close(), ssh.close(), return True
Close ==
    /\ pc = "close"
    /\ net' = [net EXCEPT !.scp_closes = @ + 1, !.ssh_closes = @ + 1]
    /\ result' = "True"
    /\ pc' = "done"
    /\ UNCHANGED <<inputs, timestamp, local_file_path, custom_filename, full_aos_path,
                   remote_filename, connect_kwargs, remote_dir, remote_path, log>>

Next ==
    \/ TransferFile
    \/ ConfigRejected
    \/ Prepare
    \/ ConnectOk
    \/ ConnectRaise
    \/ ResolveTypeError
    \/ ResolvePlain
    \/ ResolveHome
    \/ ResolveHomeRaise
    \/ PutOk
    \/ PutRaise
    \/ Close

Spec     == Init /\ [][Next]_vars
SpecPath == InitPath /\ [][Next]_vars
SpecName == InitName /\ [][Next]_vars

----------------------------------------------------------------------------
(* Properties *)

Returned == pc = "done"

\* a configuration value that is absent, null or empty
Blank(x) == x \in {Missing, None, <<>>}

StagingRoot == <<"/", "var", "/", "lib", "/", "aos", "/", "snapshot", "/">>
ArchiveName == S("aos.data.tar.gz")

\* C1: when transfer_scp has returned, every SSH client that was created has been
\* closed exactly once, and so has every SCP client, on every exit path.
C1_EveryResourceClosedOnce ==
    Returned => /\ net.ssh_closes = net.ssh_clients
                /\ net.scp_closes = net.scp_clients

\* C2: with host or username missing or empty, no SSH client is created, nothing is
\* connected, executed or uploaded, and the call returns False.
C2_InvalidConfigNoNetwork ==
    (Blank(config.host) \/ Blank(config.username)) =>
        /\ net = NoNet
        /\ connect_kwargs = NoKwargs
        /\ pc \in {"transfer_file", "transfer_scp", "done"}
        /\ Returned => result = "False"

C2_Witness ==
    /\ Returned
    /\ ~Blank(config.host) /\ config.username = <<>>
    /\ ~Blank(config.password) /\ ~Blank(config.ssh_key_path)
    /\ result = "False"
    /\ net.connects = 0

C4_NoRetry ==
    /\ net.ssh_clients <= 1 /\ net.connects <= 1
    /\ net.exec_commands <= 1 /\ net.puts <= 1
    /\ (log # "none") => (Returned /\ result = "False")
    /\ (log = "Authentication failed") =>
           (net.connects = 1 /\ net.exec_commands = 0 /\ net.puts = 0)

C4_Witness ==
    /\ Returned
    /\ log = "Authentication failed"
    /\ net.connects = 1
    /\ result = "False"

\* C5: when the configuration selects a method other than scp, transfer_file
\* returns False and uploads nothing.
C5_UnsupportedMethodFails ==
    (entry = "transfer_file" /\ config.method \in {S("sftp"), S("ftp")}) =>
        /\ net.puts = 0
        /\ Returned => result = "False"

\* C6: connect gets the key and no password when a key path is set, the password
\* and no key when only a password is set, and neither when neither is set.
C6_AuthPrecedence ==
    (connect_kwargs # NoKwargs) =>
        /\ connect_kwargs.hostname = config.host
        /\ connect_kwargs.username = config.username
        /\ ~Blank(config.ssh_key_path) =>
               /\ connect_kwargs.key_filename = config.ssh_key_path
               /\ connect_kwargs.password = Missing
        /\ (Blank(config.ssh_key_path) /\ ~Blank(config.password)) =>
               /\ connect_kwargs.password = config.password
               /\ connect_kwargs.key_filename = Missing
        /\ (Blank(config.ssh_key_path) /\ Blank(config.password)) =>
               /\ connect_kwargs.key_filename = Missing
               /\ connect_kwargs.password = Missing

C6_Witness ==
    /\ net.connects = 1
    /\ ~Blank(config.ssh_key_path) /\ ~Blank(config.password)
    /\ connect_kwargs.key_filename = config.ssh_key_path
    /\ connect_kwargs.password = Missing

\* the configured remote directory, "~/" when the key is absent
ConfiguredDir == IF config.remote_directory = Missing THEN <<"~", "/">>
                 ELSE config.remote_directory

\* the configured directory, with a separator added when it does not end with one
Terminated(d) == IF d # <<>> /\ d[Len(d)] = "/" THEN d ELSE d \o <<"/">>

\* the directory, once terminated by a separator, begins with "~/"
UnderHome(d) == LET t == Terminated(d) IN Len(t) >= 2 /\ t[1] = "~" /\ t[2] = "/"

\* C7: the remote path is the configured directory, then one separator if the
\* directory does not end with one, then the remote filename; a leading "~/" is
\* replaced by the home directory the session reported and a separator; the home
\* directory is queried only when the separator-terminated directory begins with
\* "~/".
C7_RemotePath ==
    /\ (net.exec_commands > 0) => (config.remote_directory # None
                                     /\ UnderHome(ConfiguredDir))
    /\ (remote_path # Unset) =>
        LET d   == ConfiguredDir
            fn  == remote_filename
            n   == Len(remote_path)
            sep == IF d # <<>> /\ d[Len(d)] = "/" THEN 0 ELSE 1
        IN  /\ n > Len(fn)
            /\ SubSeq(remote_path, n - Len(fn) + 1, n) = fn
            /\ remote_path[n - Len(fn)] = "/"
            /\ IF UnderHome(d)
               THEN /\ net.exec_commands = 1
                    /\ remote_path = net.home_dir \o <<"/">>
                                       \o SubSeq(Terminated(d), 3, Len(Terminated(d)))
                                       \o fn
               ELSE /\ net.exec_commands = 0
                    /\ n = Len(d) + sep + Len(fn)
                    /\ SubSeq(remote_path, 1, Len(d)) = d
            /\ (d = SrvBackups) =>
                   remote_path = <<"/", "srv", "/", "backups", "/">> \o fn
            /\ (d = HomeBackups /\ net.home_dir = <<"/", "home", "/", "svc">>) =>
                   remote_path = <<"/", "home", "/", "svc", "/", "backups", "/">> \o fn

C7_Witness ==
    /\ config.remote_directory = HomeBackups
    /\ net.home_dir = <<"/", "home", "/", "svc">>
    /\ net.put_done
    /\ net.put_remote = <<"/", "home", "/", "svc", "/", "backups", "/">> \o remote_filename

\* C8: the composed prefix is the blueprint name, a hyphen and the timestamp when a
\* name other than "Default Blueprint" is given; else the blueprint id, a hyphen and
\* the timestamp when an id other than "default" is given; else the timestamp alone.
\* It is never empty.
C8_Compose ==
    (entry = "transfer_file" /\ timestamp # Unset) =>
        LET named == ~Blank(blueprint_name) /\ blueprint_name # <<"Default Blueprint">>
            ided  == ~Blank(blueprint_id) /\ blueprint_id # <<"default">>
        IN  /\ custom_filename # <<>>
            /\ timestamp \in Timestamps
            /\ named => custom_filename = blueprint_name \o <<"-">> \o timestamp
            /\ (~named /\ ided) => custom_filename = blueprint_id \o <<"-">> \o timestamp
            /\ (~named /\ ~ided) => (custom_filename = timestamp
                                       /\ custom_filename[1] # "-")

C8_Witness ==
    /\ blueprint_id = S("b1") /\ blueprint_name = S("My Blueprint")
    /\ timestamp # Unset
    /\ custom_filename = <<"My Blueprint", "-">> \o timestamp

\* C9: the remote filename is the prefix followed once by "-aos.data.tar.gz", the
\* prefix being the custom prefix when one was supplied and the basename of
\* full_path otherwise; through transfer_file it is always the composed prefix.
C9_RemoteFilename ==
    (remote_filename # Unset) =>
        LET prefix == IF Blank(custom_filename) THEN basename(full_path)
                      ELSE custom_filename
        IN  /\ remote_filename = prefix \o <<"-", "aos.data.tar.gz">>
            /\ Len(remote_filename) = Len(prefix) + 2
            /\ (entry = "transfer_file") =>
                   /\ ~Blank(custom_filename)
                   /\ custom_filename[Len(custom_filename)] = timestamp[1]
                   /\ remote_filename = custom_filename \o <<"-", "aos.data.tar.gz">>

C9_Witness ==
    /\ entry = "transfer_scp"
    /\ custom_filename = None
    /\ full_path = <<"/", "tmp", "/", "snap1">>
    /\ remote_filename = <<"snap1", "-", "aos.data.tar.gz">>
    /\ net.put_done

\* C10: what is uploaded is /var/lib/aos/snapshot/<segment>/aos.data.tar.gz, the
\* segment being basename(full_path) in every call through transfer_file; it is
\* uploaded to the resolved remote path, after the one connection succeeded.
C10_UploadedSource ==
    (net.puts > 0) =>
        /\ net.put_local = StagingRoot \o local_file_path \o <<"/">> \o ArchiveName
        /\ (entry = "transfer_file") =>
               net.put_local = StagingRoot \o basename(full_path) \o <<"/">> \o ArchiveName
        /\ net.connected /\ net.connects = 1
        /\ net.ssh_clients = 1 /\ net.scp_clients = 1
        /\ remote_path # Unset /\ net.put_remote = remote_path

C10_Witness ==
    /\ entry = "transfer_file"
    /\ full_path = <<"/", "tmp", "/", "snap1">>
    /\ net.put_done
    /\ net.put_local = <<"/", "var", "/", "lib", "/", "aos", "/", "snapshot", "/",
                         "snap1", "/", "aos.data.tar.gz">>

====
